---- MODULE Spec2Model ----
(***************************************************************************)
(* Model of backend/core/pressure_field.py: the five-stage pressure-field   *)
(* pipeline generate_pressure_field and the bounded smoother                *)
(* _smooth_grid_bounded.                                                    *)
(*                                                                          *)
(* Numbers.  A cell or profile entry is a record [nan, n]: either NaN or    *)
(* the rational n / den, den being the state variable shared by every       *)
(* entry of the profile or grid.  Parameters are rationals with fixed       *)
(* denominators: arch_bias in fifths, contact_capacity and                  *)
(* stiffness_factor in quarters.                                            *)
(*                                                                          *)
(* arith = "exact" computes the averages of the smoother as rationals (den  *)
(* is multiplied by MeanScale in every pass); arith = "float" computes      *)
(* them as a binary floating-point unit does, every sum and quotient        *)
(* rounded to Precision significant bits, ties to even (den stays 1).       *)
(* numpy's float64 has 53 significant bits; the model keeps the rounding    *)
(* and shortens the significand.  Calls of generate_pressure_field run in   *)
(* exact arithmetic, direct calls of _smooth_grid_bounded in both.          *)
(*                                                                          *)
(* Spec is a call of generate_pressure_field, SpecSmooth a call of          *)
(* _smooth_grid_bounded on a grid of its own, SpecOrder the same call with  *)
(* the cells of a pass visited in every order, SpecArch a call of           *)
(* _apply_arch_bias on the base profile of up to MaxArchRows rows.          *)
(***************************************************************************)
EXTENDS Integers, Sequences, FiniteSets, TLC

VARIABLES GRID_ROWS, GRID_COLS, params, arith, pc, outcome, result, stages,
          profile, den, grid, shape, exponent,
          input, stiffness_factor, iterations, steps, rows, cols, pass,
          new_grid, visited, cell, neighbors

vars == <<GRID_ROWS, GRID_COLS, params, arith, pc, outcome, result, stages,
          profile, den, grid, shape, exponent,
          input, stiffness_factor, iterations, steps, rows, cols, pass,
          new_grid, visited, cell, neighbors>>

config == <<GRID_ROWS, GRID_COLS, params, arith>>
smoothLocals == <<input, stiffness_factor, iterations, steps, rows, cols, pass,
                  new_grid, visited, cell, neighbors>>

(* ------------------------------ bounds -------------------------------- *)

MaxRows == 4
MaxCols == 4
MaxIterations == 3
MaxOrderCells == 8
MaxArchRows == 180
Precision == 4

(* ------------------------- program constants -------------------------- *)

\* iterations=3, the default of _smooth_grid_bounded
DefaultIterations == 3

\* denominators of the model's rationals
Fifths == 5
Quarters == 4
Hundredths == 100
\* lcm of the possible values of len(neighbors), 1..5
MeanScale == 60

(* ------------------------------ numbers ------------------------------- *)

NaN == [nan |-> TRUE, n |-> 0]
Num(x) == [nan |-> FALSE, n |-> x]

Abs(x) == IF x < 0 THEN -x ELSE x
Max(a, b) == IF b > a THEN b ELSE a

\* Python's int() of the rational a / b (b > 0): truncation toward zero.
Trunc(a, b) == IF a >= 0 THEN a \div b ELSE -((-a) \div b)

\* a / b (a >= 0, b > 0) rounded to the nearest integer, ties to even.
RoundHalfEven(a, b) ==
    LET f == a \div b
        r == a - f * b
    IN  IF 2 * r < b THEN f
        ELSE IF 2 * r > b THEN f + 1
        ELSE IF f % 2 = 0 THEN f ELSE f + 1

\* The least k >= 0 with a / b < 2^(Precision + k): the exponent of a / b.
RECURSIVE Binade(_, _, _)
Binade(a, b, k) == IF a < b * 2^(Precision + k) THEN k ELSE Binade(a, b, k + 1)

\* The floating-point number nearest to a / b (b > 0).
FlRound(a, b) ==
    LET m == Abs(a)
        k == Binade(m, b, 0)
        q == RoundHalfEven(m, b * 2^k) * 2^k
    IN  IF a < 0 THEN -q ELSE q

\* One addition, one division by an integer, of the arithmetic in use.
Add(x, y) == IF arith = "float" THEN FlRound(x + y, 1) ELSE x + y
NextDen(d) == IF arith = "float" THEN d ELSE d * MeanScale
Rescale(v) == IF v.nan \/ arith = "float" THEN v ELSE Num(v.n * MeanScale)

(* --------------------- stage 1: base profile -------------------------- *)

\* np.linspace(0, 1, num), num >= 0, as numerators over LinspaceDen(num):
\* num = 1 gives the single sample 0.
LinspaceDen(num) == IF num > 1 THEN num - 1 ELSE 1
Linspace(num) == [i \in 0..(num - 1) |-> i]

\* 1.2 - x over the denominator Fifths * LinspaceDen(GRID_ROWS)
ProfileDen(R) == Fifths * LinspaceDen(R)
BaseLongitudinalProfile(R) ==
    LET x == Linspace(R)
    IN  [i \in DOMAIN x |-> Num(6 * LinspaceDen(R) - Fifths * x[i])]

(* ----------------------- stage 2: arch bias --------------------------- *)

\* The number of bits of n >= 0.
RECURSIVE BitLen(_)
BitLen(n) == IF n = 0 THEN 0 ELSE 1 + BitLen(n \div 2)

\* int(c * R) as binary64 computes it, for the literal c whose nearest
\* binary64 number is (pct * 2^54 + corr) / (Hundredths * 2^54):
\*   0.35 = 0x1.6666666666666p-2 = (35 * 2^54 - 40) / (100 * 2^54)
\*   0.65 = 0x1.4cccccccccccdp-1 = (65 * 2^54 + 40) / (100 * 2^54)
\* The exact product is q + r/100 + corr * R / (100 * 2^54); it is rounded to
\* 53 significant bits and then truncated.  Only when pct * R is a multiple
\* of 100 and c lies below pct/100 can the rounded product stay below q: it
\* does unless the deficit -corr * R / 100 (in units of 2^-54) is at most
\* half the spacing of the binary64 numbers below q, 2^BitLen(q - 1).
IntOfProduct(pct, corr, R) ==
    LET m == Abs(R)
        q == (pct * m) \div Hundredths
        r == (pct * m) % Hundredths
        t == IF r = 0 /\ corr < 0 /\ q > 0
                  /\ (-corr) * m > Hundredths * 2^BitLen(q - 1)
             THEN q - 1 ELSE q
    IN  IF R < 0 THEN -t ELSE t

mid_start(R) == IntOfProduct(35, -40, R)
mid_end(R) == IntOfProduct(65, 40, R)

\* The indices a[lo:hi] selects in an array of length len (Python slicing).
SliceIndex(k, len) ==
    IF k < 0 THEN (IF k + len < 0 THEN 0 ELSE k + len)
    ELSE IF k > len THEN len ELSE k
Slice(lo, hi, len) ==
    {i \in 0..(len - 1) : SliceIndex(lo, len) <= i /\ i < SliceIndex(hi, len)}

\* v + arch_bias, arch_bias in fifths, v over the denominator d
PlusBias(v, arch_bias, d) ==
    IF v.nan THEN v ELSE Num(v.n + arch_bias * (d \div Fifths))

\* profile[mid_start:mid_end] += arch_bias
ApplyArchBias(p, arch_bias, R, d) ==
    LET len == Cardinality(DOMAIN p)
        window == Slice(mid_start(R), mid_end(R), len)
    IN  [i \in DOMAIN p |-> IF i \in window THEN PlusBias(p[i], arch_bias, d)
                                           ELSE p[i]]

(* --------------------- stage 3: grid expansion ------------------------ *)

Cells(r, c) == (0..(r - 1)) \X (0..(c - 1))

\* longitudinal_profile.reshape(-1, 1): one column
Reshape(p) == [c \in (DOMAIN p) \X {0} |-> p[c[1]]]

\* Tile with the rows rotated from one column to the next.
TileShifted(a, shp, reps) ==
    [c \in Cells(shp[1], shp[2] * reps) |->
        a[<<(c[1] + c[2]) % shp[1], c[2] % shp[2]>>]]

\* np.tile(a, (1, reps)) of an array a of shape shp, reps >= 0
Tile(a, shp, reps) ==
    [c \in Cells(shp[1], shp[2] * reps) |-> a[<<c[1], c[2] % shp[2]>>]]

ExpandToGrid(p, reps) == Tile(Reshape(p), <<Cardinality(DOMAIN p), 1>>, reps)

(* ------------------- stage 4: contact capacity ------------------------ *)

\* Exponent without the floor of 0.5.
ExponentUnfloored(capacity) == 6 - capacity

\* max(0.5, 1.5 - capacity), in quarters
Exponent(capacity) == Max(2, 6 - capacity)

\* np.power(x, e / 4) of x = v.n / d: unchanged for the exponent 1, NaN for a
\* negative base and a fractional exponent, otherwise the power rounded
\* down to a multiple of 1 / d.
Power(v, e, d) ==
    IF v.nan THEN NaN
    ELSE IF e = Quarters THEN v
    ELSE IF v.n < 0 THEN NaN
    ELSE IF e < Quarters
         THEN Num(CHOOSE r \in 0..(v.n + d) :
                    /\ r^4 <= v.n^e * d^(Quarters - e)
                    /\ (r + 1)^4 > v.n^e * d^(Quarters - e))
         ELSE Num(CHOOSE r \in 0..(v.n * v.n + d) :
                    /\ r^4 * d^(e - Quarters) <= v.n^e
                    /\ (r + 1)^4 * d^(e - Quarters) > v.n^e)

ApplyContactCapacity(g, capacity, d) ==
    [c \in DOMAIN g |-> Power(g[c], Exponent(capacity), d)]
(* ------------------------ stage 5: smoothing -------------------------- *)

\* Steps with round() in the place of int().
StepsRounded(s, it) ==
    IF (Quarters - s) * it >= 0
    THEN RoundHalfEven((Quarters - s) * it, Quarters)
    ELSE -RoundHalfEven((s - Quarters) * it, Quarters)

\* int((1.0 - stiffness_factor) * iterations), stiffness_factor in quarters
Steps(s, it) == Trunc((Quarters - s) * it, Quarters)

\* Neighbors without the guard i > 0: row -1 is numpy's last row.
NeighborsWrapped(i, j, r, c) ==
    <<  <<i, j>>  >>
    \o <<  <<i - 1, j>>  >>
    \o (IF i < r - 1 THEN <<  <<i + 1, j>>  >> ELSE <<>>)
    \o (IF j > 0 THEN <<  <<i, j - 1>>  >> ELSE <<>>)
    \o (IF j < c - 1 THEN <<  <<i, j + 1>>  >> ELSE <<>>)

\* Neighbors with the right-hand guard off by one.
NeighborsSkewed(i, j, r, c) ==
    <<  <<i, j>>  >>
    \o (IF i > 0 THEN <<  <<i - 1, j>>  >> ELSE <<>>)
    \o (IF i < r - 1 THEN <<  <<i + 1, j>>  >> ELSE <<>>)
    \o (IF j > 0 THEN <<  <<i, j - 1>>  >> ELSE <<>>)
    \o (IF j < c - 2 THEN <<  <<i, j + 1>>  >> ELSE <<>>)

\* The cells whose values the loop body appends to neighbors for (i, j), in
\* the order of the appends.
Neighbors(i, j, r, c) ==
    <<  <<i, j>>  >>
    \o (IF i > 0 THEN <<  <<i - 1, j>>  >> ELSE <<>>)
    \o (IF i < r - 1 THEN <<  <<i + 1, j>>  >> ELSE <<>>)
    \o (IF j > 0 THEN <<  <<i, j - 1>>  >> ELSE <<>>)
    \o (IF j < c - 1 THEN <<  <<i, j + 1>>  >> ELSE <<>>)

\* grid[i, j] with numpy's indexing: a negative index counts from the end.
At(g, ij, r, c) ==
    g[<<IF ij[1] < 0 THEN ij[1] + r ELSE ij[1],
        IF ij[2] < 0 THEN ij[2] + c ELSE ij[2]>>]

\* sum(vals): 0 + vals[1] + vals[2] + ..., left to right
RECURSIVE SumFrom(_, _, _)
SumFrom(vals, k, acc) ==
    IF k > Len(vals) THEN acc ELSE SumFrom(vals, k + 1, Add(acc, vals[k].n))

\* sum(neighbors) / len(neighbors); in exact arithmetic over den * MeanScale
Average(vals) ==
    IF \E k \in 1..Len(vals) : vals[k].nan THEN NaN
    ELSE IF arith = "float" THEN Num(FlRound(SumFrom(vals, 1, 0), Len(vals)))
    ELSE Num(SumFrom(vals, 1, 0) * (MeanScale \div Len(vals)))

\* The new value of cell ij, read from the snapshot g of shape r x c.
CellMean(g, ij, r, c) ==
    LET nb == Neighbors(ij[1], ij[2], r, c)
    IN  Average([k \in 1..Len(nb) |-> At(g, nb[k], r, c)])

\* The next cell of "for i in range(rows): for j in range(cols)".
NextCell(done, r, c) ==
    CHOOSE x \in Cells(r, c) \ done :
        \A y \in Cells(r, c) \ done :
            x[1] < y[1] \/ (x[1] = y[1] /\ x[2] <= y[2])

(* ------------------------------ actions ------------------------------- *)

Failed == outcome \notin {"running", "returned"}

\* stages holds the stages of generate_pressure_field that have run to their
\* end; result holds the grid returned, once one is.

Raise(error) ==
    /\ pc' = "done"
    /\ outcome' = error

\* line 85: profile = _base_longitudinal_profile()
BaseProfile ==
    /\ pc = "base"
    /\ GRID_ROWS >= 0
    /\ profile' = BaseLongitudinalProfile(GRID_ROWS)
    /\ den' = ProfileDen(GRID_ROWS)
    /\ stages' = stages \cup {1}
    /\ pc' = "arch"
    /\ UNCHANGED <<config, outcome, result, grid, shape, exponent, smoothLocals>>

\* np.linspace raises ValueError for a negative number of samples
BaseProfileValueError ==
    /\ pc = "base"
    /\ GRID_ROWS < 0
    /\ Raise("ValueError_linspace")
    /\ UNCHANGED <<config, result, stages, profile, den, grid, shape, exponent,
                   smoothLocals>>

\* line 88: profile = _apply_arch_bias(profile, params["arch_bias"])
ArchBias ==
    /\ pc = "arch"
    /\ "arch_bias" \in DOMAIN params
    /\ profile' = ApplyArchBias(profile, params["arch_bias"], GRID_ROWS, den)
    /\ stages' = stages \cup {2}
    /\ pc' = "expand"
    /\ UNCHANGED <<config, outcome, result, den, grid, shape, exponent, smoothLocals>>

ArchBiasKeyError ==
    /\ pc = "arch"
    /\ "arch_bias" \notin DOMAIN params
    /\ Raise("KeyError_arch_bias")
    /\ UNCHANGED <<config, result, stages, profile, den, grid, shape, exponent,
                   smoothLocals>>

\* line 91: grid = _expand_to_grid(profile)
Expand ==
    /\ pc = "expand"
    /\ GRID_COLS >= 0
    /\ grid' = ExpandToGrid(profile, GRID_COLS)
    /\ shape' = <<Cardinality(DOMAIN profile), GRID_COLS>>
    /\ stages' = stages \cup {3}
    /\ pc' = "capacity"
    /\ UNCHANGED <<config, outcome, result, profile, den, exponent, smoothLocals>>

\* np.tile raises ValueError for a negative repetition count
ExpandValueError ==
    /\ pc = "expand"
    /\ GRID_COLS < 0
    /\ Raise("ValueError_tile")
    /\ UNCHANGED <<config, result, stages, profile, den, grid, shape, exponent,
                   smoothLocals>>

\* lines 94-97: grid = _apply_contact_capacity(grid, params["contact_capacity"])
ContactCapacity ==
    /\ pc = "capacity"
    /\ "contact_capacity" \in DOMAIN params
    /\ exponent' = Exponent(params["contact_capacity"])
    /\ grid' = ApplyContactCapacity(grid, params["contact_capacity"], den)
    /\ stages' = stages \cup {4}
    /\ pc' = "smooth"
    /\ UNCHANGED <<config, outcome, result, profile, den, shape, smoothLocals>>

ContactCapacityKeyError ==
    /\ pc = "capacity"
    /\ "contact_capacity" \notin DOMAIN params
    /\ Raise("KeyError_contact_capacity")
    /\ UNCHANGED <<config, result, stages, profile, den, grid, shape, exponent,
                   smoothLocals>>

\* lines 100-103: the call _smooth_grid_bounded(grid, params["stiffness_factor"])
SmoothCall ==
    /\ pc = "smooth"
    /\ "stiffness_factor" \in DOMAIN params
    /\ stiffness_factor' = params["stiffness_factor"]
    /\ iterations' = DefaultIterations
    /\ input' = [grid |-> grid, den |-> den]
    /\ pc' = "entry"
    /\ UNCHANGED <<config, outcome, result, stages, profile, den, grid, shape, exponent,
                   steps, rows, cols, pass, new_grid, visited, cell, neighbors>>

\* The lookup with a default, params.get("stiffness_factor", 1.0).
SmoothKeyDefault ==
    /\ pc = "smooth"
    /\ "stiffness_factor" \notin DOMAIN params
    /\ stiffness_factor' = Quarters
    /\ iterations' = DefaultIterations
    /\ input' = [grid |-> grid, den |-> den]
    /\ pc' = "entry"
    /\ UNCHANGED <<config, outcome, result, stages, profile, den, grid, shape, exponent,
                   steps, rows, cols, pass, new_grid, visited, cell, neighbors>>

SmoothKeyError ==
    /\ pc = "smooth"
    /\ "stiffness_factor" \notin DOMAIN params
    /\ Raise("KeyError_stiffness_factor")
    /\ UNCHANGED <<config, result, stages, profile, den, grid, shape, exponent,
                   smoothLocals>>

\* lines 53-54: steps, and rows, cols = grid.shape
SmoothEntry ==
    /\ pc = "entry"
    /\ steps' = Steps(stiffness_factor, iterations)
    /\ rows' = shape[1]
    /\ cols' = shape[2]
    /\ pass' = 0
    /\ pc' = "outer"
    /\ UNCHANGED <<config, outcome, result, stages, profile, den, grid, shape,
                   exponent, input, stiffness_factor, iterations, new_grid,
                   visited, cell, neighbors>>

\* lines 56-57: one more pass of range(steps); new_grid = grid.copy()
PassBegin ==
    /\ pc = "outer"
    /\ pass < steps
    /\ new_grid' = [c \in DOMAIN grid |-> Rescale(grid[c])]
    /\ visited' = {}
    /\ pc' = "inner"
    /\ UNCHANGED <<config, outcome, result, stages, profile, den, grid, shape,
                   exponent, input, stiffness_factor, iterations, steps, rows,
                   cols, pass, cell, neighbors>>

\* The loop body writing into the grid it reads.
VisitInPlace(ij) ==
    /\ pc = "inner"
    /\ ij \in Cells(rows, cols) \ visited
    /\ neighbors' = Neighbors(ij[1], ij[2], rows, cols)
    /\ new_grid' = [new_grid EXCEPT ![ij] = CellMean(new_grid, ij, rows, cols)]
    /\ cell' = ij
    /\ visited' = visited \cup {ij}
    /\ UNCHANGED <<config, pc, outcome, result, stages, profile, den, grid, shape,
                   exponent, input, stiffness_factor, iterations, steps, rows,
                   cols, pass>>

\* lines 61-72 for the cell ij
Visit(ij) ==
    /\ pc = "inner"
    /\ ij \in Cells(rows, cols) \ visited
    /\ neighbors' = Neighbors(ij[1], ij[2], rows, cols)
    /\ new_grid' = [new_grid EXCEPT ![ij] = CellMean(grid, ij, rows, cols)]
    /\ cell' = ij
    /\ visited' = visited \cup {ij}
    /\ UNCHANGED <<config, pc, outcome, result, stages, profile, den, grid, shape,
                   exponent, input, stiffness_factor, iterations, steps, rows,
                   cols, pass>>

\* lines 59-60: the loops visit the cells row by row
VisitCell ==
    /\ pc = "inner"
    /\ Cells(rows, cols) # visited
    /\ Visit(NextCell(visited, rows, cols))

\* the same loop body, the cells taken in any order
VisitAnyCell == \E ij \in Cells(rows, cols) \ visited : Visit(ij)

\* line 74: grid = new_grid
PassEnd ==
    /\ pc = "inner"
    /\ visited = Cells(rows, cols)
    /\ grid' = new_grid
    /\ den' = NextDen(den)
    /\ pass' = pass + 1
    /\ pc' = "outer"
    /\ UNCHANGED <<config, outcome, result, stages, profile, shape, exponent,
                   input, stiffness_factor, iterations, steps, rows, cols,
                   new_grid, visited, cell, neighbors>>

\* lines 76 and 105: return grid
SmoothReturn ==
    /\ pc = "outer"
    /\ pass >= steps
    /\ result' = {grid}
    /\ outcome' = "returned"
    /\ stages' = stages \cup {5}
    /\ pc' = "done"
    /\ UNCHANGED <<config, profile, den, grid, shape, exponent, smoothLocals>>
(* --------------------------- initial states --------------------------- *)

ParamNames == {"arch_bias", "contact_capacity", "stiffness_factor"}

\* arch_bias in fifths, contact_capacity and stiffness_factor in quarters
ArchBiasValues == {-7, -1, 0, 1}
ContactCapacityValues == {0, 3, 4, 5}
StiffnessValues == {0, 1, 2, 4, 6}

FieldValues(k) ==
    IF k = "arch_bias" THEN ArchBiasValues
    ELSE IF k = "contact_capacity" THEN ContactCapacityValues
    ELSE StiffnessValues

\* the parameter records: each field present with a value, or missing
ParamRecords ==
    UNION {{p \in [K -> ArchBiasValues \cup ContactCapacityValues \cup StiffnessValues] :
               \A k \in K : p[k] \in FieldValues(k)} : K \in SUBSET ParamNames}

NoLocals ==
    /\ input = [grid |-> <<>>, den |-> 1]
    /\ stiffness_factor = 0
    /\ iterations = 0
    /\ steps = 0
    /\ rows = 0
    /\ cols = 0
    /\ pass = 0
    /\ new_grid = <<>>
    /\ visited = {}
    /\ cell = <<0, 0>>
    /\ neighbors = <<>>

\* A call of generate_pressure_field(params) under some configuration.
Init ==
    /\ GRID_ROWS \in -1..MaxRows
    /\ GRID_COLS \in -1..MaxCols
    /\ params \in ParamRecords
    /\ arith = "exact"
    /\ pc = "base"
    /\ outcome = "running"
    /\ result = {}
    /\ stages = {}
    /\ profile = <<>>
    /\ den = 1
    /\ grid = <<>>
    /\ shape = <<0, 0>>
    /\ exponent = 0
    /\ NoLocals

Next ==
    \/ BaseProfile
    \/ BaseProfileValueError
    \/ ArchBias
    \/ ArchBiasKeyError
    \/ Expand
    \/ ExpandValueError
    \/ ContactCapacity
    \/ ContactCapacityKeyError
    \/ SmoothCall
    \/ SmoothKeyError
    \/ SmoothEntry
    \/ PassBegin
    \/ VisitCell
    \/ PassEnd
    \/ SmoothReturn

Spec == Init /\ [][Next]_vars

\* Floating-point numbers of the top binade and their negatives: the cell
\* values of the input grids.
Lo == 2^(Precision - 1) + 1
Hi == 2^Precision - 2
ValuePairs == {<<Lo, Hi>>, <<-Hi, Lo>>}

RowSets(r) == {{}, {0}, {i \in 0..(r - 1) : i % 2 = 1}}

\* The input grids of shape r x c: uniform, striped and chequered.
InputGrids(r, c) ==
    {[x \in Cells(r, c) |->
        Num(IF (x[1] \in A) # (x[2] \in B) THEN v[1] ELSE v[2])] :
        <<A, B, v>> \in RowSets(r) \X RowSets(c) \X ValuePairs}

\* The skewed input grids of shape r x c: no two rows or columns alike.
SkewGrids(r, c) ==
    {[x \in Cells(r, c) |-> Num(Lo + ((x[1] * c + x[2] + k)^2 % 5))] : k \in 0..1}

\* A direct call _smooth_grid_bounded(grid, stiffness_factor, iterations).
SmoothInit(inputs, stiffs, budgets) ==
    /\ arith \in {"exact", "float"}
    /\ \E in \in inputs : shape = in[1] /\ grid = in[2]
    /\ stiffness_factor \in stiffs
    /\ iterations \in budgets
    /\ input = [grid |-> grid, den |-> 1]
    /\ GRID_ROWS = shape[1]
    /\ GRID_COLS = shape[2]
    /\ params = <<>>
    /\ pc = "entry"
    /\ outcome = "running"
    /\ result = {}
    /\ stages = {}
    /\ profile = <<>>
    /\ den = 1
    /\ exponent = 0
    /\ steps = 0
    /\ rows = 0
    /\ cols = 0
    /\ pass = 0
    /\ new_grid = <<>>
    /\ visited = {}
    /\ cell = <<0, 0>>
    /\ neighbors = <<>>

InitSmooth ==
    SmoothInit(UNION {{<<sh, g>> : g \in InputGrids(sh[1], sh[2])} :
                          sh \in (1..MaxRows) \X (1..MaxCols)},
               {0, 2, 4, 6}, 0..MaxIterations)

NextSmooth ==
    \/ SmoothEntry
    \/ PassBegin
    \/ VisitCell
    \/ PassEnd
    \/ SmoothReturn

SpecSmooth == InitSmooth /\ [][NextSmooth]_vars

\* The same call, the cells of each pass visited in every order.
InitOrder ==
    SmoothInit(UNION {{<<sh, g>> : g \in SkewGrids(sh[1], sh[2])} :
                          sh \in {x \in (1..MaxRows) \X (1..MaxCols) :
                                      x[1] * x[2] <= MaxOrderCells}},
               {0, 2}, {DefaultIterations})

NextOrder ==
    \/ SmoothEntry
    \/ PassBegin
    \/ VisitAnyCell
    \/ PassEnd
    \/ SmoothReturn

SpecOrder == InitOrder /\ [][NextOrder]_vars

\* A call _apply_arch_bias(profile, arch_bias) on the base profile.
InitArch ==
    /\ GRID_ROWS \in 1..MaxArchRows
    /\ GRID_COLS = 1
    /\ params \in [{"arch_bias"} -> {-1, 1}]
    /\ arith = "exact"
    /\ pc = "arch"
    /\ outcome = "running"
    /\ result = {}
    /\ stages = {1}
    /\ profile = BaseLongitudinalProfile(GRID_ROWS)
    /\ den = ProfileDen(GRID_ROWS)
    /\ grid = <<>>
    /\ shape = <<0, 0>>
    /\ exponent = 0
    /\ NoLocals

NextArch == ArchBias

SpecArch == InitArch /\ [][NextArch]_vars
(* ------------------------------- claims ------------------------------- *)

SeqRange(q) == {q[k] : k \in 1..Len(q)}

\* One whole pass over the snapshot g, and k passes in a row.
SmoothedOnce(g, r, c) == [x \in Cells(r, c) |-> CellMean(g, x, r, c)]
RECURSIVE SmoothedTimes(_, _, _, _)
SmoothedTimes(g, r, c, k) ==
    IF k = 0 THEN g ELSE SmoothedTimes(SmoothedOnce(g, r, c), r, c, k - 1)

\* C1: in every pass the new value of every cell is computed from the grid as
\* it was before the pass began, whichever cells were visited before it: the
\* cells visited so far hold the mean over the snapshot, the others the copy,
\* and the grid after each pass (and the result) is the input smoothed pass
\* times, whatever the order of the visits.
C1_SnapshotOnly ==
    /\ pc = "inner" =>
          \A x \in Cells(rows, cols) :
              new_grid[x] = IF x \in visited THEN CellMean(grid, x, rows, cols)
                                             ELSE Rescale(grid[x])
    /\ pc \in {"outer", "done"} =>
          grid = SmoothedTimes(input.grid, rows, cols, pass)
    /\ pc = "done" => result = {SmoothedTimes(input.grid, rows, cols, pass)}

\* A second pass has ended whose last visit was not the last cell of the
\* row-by-row order.
C1_Witness ==
    /\ pc = "outer"
    /\ pass >= 2
    /\ rows * cols >= 6
    /\ cell # <<rows - 1, cols - 1>>

InputMin == CHOOSE m \in {input.grid[x].n : x \in DOMAIN input.grid} :
                \A x \in DOMAIN input.grid : m <= input.grid[x].n
InputMax == CHOOSE m \in {input.grid[x].n : x \in DOMAIN input.grid} :
                \A x \in DOMAIN input.grid : m >= input.grid[x].n

\* C2: after any number of passes every cell of the grid lies between the
\* minimum and the maximum cell of the grid passed to _smooth_grid_bounded.
C2_Bounded ==
    pc \in {"outer", "inner", "done"} =>
        \A x \in DOMAIN grid :
            /\ ~grid[x].nan
            /\ InputMin * (den \div input.den) <= grid[x].n
            /\ grid[x].n <= InputMax * (den \div input.den)

\* The same bound, for the averages computed without rounding.
BoundedInExactArithmetic == arith = "exact" => C2_Bounded

C4_FailsBeforeAnyStage ==
    (GRID_ROWS <= 0 \/ GRID_COLS <= 0) =>
        /\ stages = {}
        /\ result = {}
        /\ pc = "done" => Failed

\* The fields of params in the order generate_pressure_field reads them.
AccessOrder == <<"arch_bias", "contact_capacity", "stiffness_factor">>
FirstMissing ==
    AccessOrder[CHOOSE k \in 1..3 :
                    /\ AccessOrder[k] \notin DOMAIN params
                    /\ \A m \in 1..(k - 1) : AccessOrder[m] \in DOMAIN params]
KeyErrorOf(k) ==
    IF k = "arch_bias" THEN "KeyError_arch_bias"
    ELSE IF k = "contact_capacity" THEN "KeyError_contact_capacity"
    ELSE "KeyError_stiffness_factor"
StagesBefore(k) ==
    IF k = "arch_bias" THEN {1}
    ELSE IF k = "contact_capacity" THEN {1, 2, 3}
    ELSE {1, 2, 3, 4}

\* C5: when params lacks a field, no grid is ever returned and the call ends
\* in failure; under a valid configuration (positive row and column counts)
\* the failure is the lookup of the missing field, raised when the stages
\* before that lookup have run and no later one, whatever the values of the
\* fields present.
C5_MissingField ==
    (DOMAIN params # ParamNames) =>
        /\ result = {}
        /\ outcome # "returned"
        /\ pc = "done" => Failed
        /\ (pc = "done" /\ GRID_ROWS >= 1 /\ GRID_COLS >= 1) =>
               /\ outcome = KeyErrorOf(FirstMissing)
               /\ stages = StagesBefore(FirstMissing)

\* A call whose params lacks only stiffness_factor has ended, the arch bias
\* having driven a cell to NaN in the capacity stage before.
C5_Witness ==
    /\ pc = "done"
    /\ DOMAIN params = {"arch_bias", "contact_capacity"}
    /\ GRID_ROWS >= 2
    /\ GRID_COLS >= 1
    /\ \E x \in DOMAIN grid : grid[x].nan
    /\ outcome = "KeyError_stiffness_factor"

\* C6: the profile _apply_arch_bias returns has the length of its input,
\* its entries with index in [floor(0.35 R), floor(0.65 R)) are the input's
\* plus arch_bias, the others are the input's; an empty window changes
\* nothing.
C6_Window ==
    pc = "expand" =>
        LET base == BaseLongitudinalProfile(GRID_ROWS)
            lo == (35 * GRID_ROWS) \div Hundredths
            hi == (65 * GRID_ROWS) \div Hundredths
        IN  /\ DOMAIN profile = DOMAIN base
            /\ \A i \in DOMAIN base :
                   profile[i] = IF lo <= i /\ i < hi
                                THEN PlusBias(base[i], params["arch_bias"], den)
                                ELSE base[i]
            /\ lo >= hi => profile = base
\* The orthogonal neighbours of ij inside [0, rows) x [0, cols).
Orthogonal(ij) ==
    {x \in Cells(rows, cols) : Abs(x[1] - ij[1]) + Abs(x[2] - ij[2]) = 1}
IsCorner(ij) == ij[1] \in {0, rows - 1} /\ ij[2] \in {0, cols - 1}
IsBorder(ij) == ij[1] \in {0, rows - 1} \/ ij[2] \in {0, cols - 1}
ValuesAveraged(ij) ==
    IF IsCorner(ij) THEN 3 ELSE IF IsBorder(ij) THEN 4 ELSE 5

\* The last visit took the mean of the cell and exactly its orthogonal
\* neighbours inside the grid, each once.
MeanOfExistingNeighbours ==
    /\ SeqRange(neighbors) = {cell} \cup Orthogonal(cell)
    /\ Len(neighbors) = 1 + Cardinality(Orthogonal(cell))
    /\ pc = "inner" =>
           new_grid[cell] = Average([k \in 1..Len(neighbors) |-> grid[neighbors[k]]])

\* C7 as stated: on a grid of any dimensions the new value of a cell is the
\* mean of the cell and exactly its existing orthogonal neighbours; a corner
\* cell averages 3 values, a non-corner border cell 4, an interior cell 5.
C7_AnyDimensions ==
    visited # {} =>
        /\ MeanOfExistingNeighbours
        /\ Len(neighbors) = ValuesAveraged(cell)

\* C7, amended: the counts 3, 4 and 5 are those of a grid with at least two
\* rows and two columns; in every grid the count is one more than the number
\* of existing orthogonal neighbours.
C7_ExistingNeighbours ==
    visited # {} =>
        /\ MeanOfExistingNeighbours
        /\ (rows >= 2 /\ cols >= 2) => Len(neighbors) = ValuesAveraged(cell)

\* The interior cell of a 3 x 3 grid has been visited, with 5 values.
C7_Witness ==
    /\ pc = "inner"
    /\ rows = 3
    /\ cols = 3
    /\ cell = <<1, 1>>
    /\ cell \in visited
    /\ Len(neighbors) = 5

\* C8: the exponent of _apply_contact_capacity is max(0.5, 1.5 -
\* contact_capacity), never below 0.5, and 0.5 exactly when contact_capacity
\* is at least 1.0 (in quarters: 2, 6 and 4).
C8_Exponent ==
    4 \in stages =>
        LET capacity == params["contact_capacity"]
        IN  /\ exponent = (IF 6 - capacity > 2 THEN 6 - capacity ELSE 2)
            /\ exponent >= 2
            /\ exponent = 2 <=> capacity >= 4

\* The capacity stage has run with contact_capacity = 1.0 exactly.
C8_Witness ==
    /\ 4 \in stages
    /\ params["contact_capacity"] = 4
    /\ exponent = 2

\* C9: the grid _expand_to_grid returns has exactly rows x cols cells and
\* grid[i][j] = profile[i] for every row i and column j.
C9_Expansion ==
    pc = "capacity" =>
        /\ shape = <<GRID_ROWS, GRID_COLS>>
        /\ DOMAIN grid = Cells(GRID_ROWS, GRID_COLS)
        /\ Cardinality(DOMAIN grid) = GRID_ROWS * GRID_COLS
        /\ \A x \in DOMAIN grid : grid[x] = profile[x[1]]
        /\ \A x, y \in DOMAIN grid : x[1] = y[1] => grid[x] = grid[y]

\* A profile with two different entries has been expanded over two columns
\* or more.
C9_Witness ==
    /\ pc = "capacity"
    /\ GRID_ROWS >= 2
    /\ GRID_COLS >= 2
    /\ profile[0] # profile[1]

Mirrored(g) ==
    \A x \in DOMAIN g : g[x] = g[<<x[1], shape[2] - 1 - x[2]>>]

\* C10: in exact arithmetic the grid of generate_pressure_field is
\* mirror-symmetric across the width, grid[i][j] = grid[i][cols-1-j], when
\* it is expanded, shaped, after every smoothing pass and when it is
\* returned.
C10_MirrorSymmetry ==
    /\ Mirrored(grid)
    /\ \A g \in result : Mirrored(g)
    /\ (pc = "inner" /\ visited = Cells(rows, cols)) => Mirrored(new_grid)

\* A grid of three columns or more has been returned after two passes or
\* more, its border column differing from the next.
C10_Witness ==
    /\ pc = "done"
    /\ outcome = "returned"
    /\ pass >= 2
    /\ cols >= 3
    /\ rows >= 2
    /\ ~grid[<<0, 0>>].nan
    /\ grid[<<0, 0>>] # grid[<<0, 1>>]
====
